---- MODULE Spec2Model ----
(***************************************************************************)
(* Model of balancer-js/src/modules/joins/graph.ts:                        *)
(*   - PoolGraph: buildGraphFromRootPool / buildGraphFromPool and its      *)
(*     helpers, orderByBfs, getNodesToRoot;                                *)
(*   - PoolsFallbackRepository: fallbackQuery over an ordered provider     *)
(*     list that shares currentProviderIdx between in-flight queries.      *)
(*                                                                         *)
(* JavaScript objects are modelled by a store (heap): a sequence of node   *)
(* records, a node reference being its position in the store and 0 being   *)
(* `undefined`.  Arrays of nodes are sequences of references.              *)
(***************************************************************************)
EXTENDS Integers, Sequences, FiniteSets, TLC

VARIABLES
    pools,              \* PoolGraph.pools: the pool records the repository serves
    heap,               \* the object store: Node records
    built,              \* outcome of the last buildGraphFromRootPool
    orderedNodes,       \* result of the last orderByBfs (references)
    result,             \* outcome of the last getNodesToRoot
    last,               \* the last PoolGraph call and its arguments
    currentProviderIdx, \* PoolsFallbackRepository.currentProviderIdx
    queries             \* the find / findBy / fetch calls made on the repository

graphVars == <<pools, heap, built, orderedNodes, result, last>>
repoVars == <<currentProviderIdx, queries>>
vars == <<pools, heap, built, orderedNodes, result, last,
          currentProviderIdx, queries>>

-----------------------------------------------------------------------------
(* Bounds of the model *)

\* Fixed-point scale standing for WeiPerEther (10^18 in the code): TLC's
\* integers are 32 bit wide, so the products of two proportions are kept
\* below 2^31 by a smaller scale.  Proportions are exact integers (BigNumber),
\* nothing wraps.
WeiPerEther == 1000

\* Largest parsed balance of a pool token.
MaxBalance == 2

\* Largest startingIndex passed to getNodesToRoot.
MaxStartingIndex == 1

\* Number of providers of the fallback repository (providers.length), and
\* of queries made on it.
NumProviders == 3
NumQueries == 2

-----------------------------------------------------------------------------
(* Strings *)

\* String.prototype.toLowerCase on the addresses of the model: hex digits
\* A..F of a checksummed address become a..f, everything else is unchanged.
toLowerCase(s) ==
    CASE s = "0xR" -> "0xr"
      [] s = "0xB" -> "0xb"
      [] s = "0xL" -> "0xl"
      [] s = "0xX" -> "0xx"
      [] s = "0xY" -> "0xy"
      [] s = "0xZ" -> "0xz"
      [] s = "0xW" -> "0xw"
      [] OTHER -> s

Digit(d) ==
    CASE d = 0 -> "0" [] d = 1 -> "1" [] d = 2 -> "2" [] d = 3 -> "3"
      [] d = 4 -> "4" [] d = 5 -> "5" [] d = 6 -> "6" [] d = 7 -> "7"
      [] d = 8 -> "8" [] d = 9 -> "9"

\* Number.prototype.toString() of a non-negative integer.
RECURSIVE toString(_)
toString(n) == IF n < 10 THEN Digit(n) ELSE toString(n \div 10) \o Digit(n % 10)

-----------------------------------------------------------------------------
(* Sequence helpers standing for Array methods *)

\* Array.prototype.indexOf, 1-based; 0 when absent (-1 in the code).
RECURSIVE indexOfFrom(_, _, _)
indexOfFrom(s, v, i) ==
    IF i > Len(s) THEN 0
    ELSE IF s[i] = v THEN i ELSE indexOfFrom(s, v, i + 1)

indexOf(s, v) == indexOfFrom(s, v, 1)

RECURSIVE SumSeq(_)
SumSeq(s) == IF s = <<>> THEN 0 ELSE Head(s) + SumSeq(Tail(s))

Range(s) == {s[i] : i \in DOMAIN s}

-----------------------------------------------------------------------------
(* Pool types and the joinActions / exitActions tables *)

LinearTypes == {"AaveLinear", "ERC4626Linear"}

joinActions ==
    [t \in {"AaveLinear", "ERC4626Linear", "Element", "Investment",
            "LiquidityBootstrapping", "MetaStable", "Stable", "StablePhantom",
            "Weighted", "ComposableStable"} |->
        IF t \in {"AaveLinear", "ERC4626Linear", "Element", "StablePhantom"}
        THEN "batchSwap" ELSE "joinPool"]

exitActions ==
    [t \in {"AaveLinear", "ERC4626Linear", "Element", "Investment",
            "LiquidityBootstrapping", "MetaStable", "Stable", "StablePhantom",
            "Weighted", "ComposableStable"} |->
        IF t \in {"AaveLinear", "ERC4626Linear", "Element", "StablePhantom"}
        THEN "batchSwap" ELSE "exitPool"]

\* pool.poolType.toString().includes('Linear')
includesLinear(poolType) == poolType \in LinearTypes \cup {"Linear", "EulerLinear"}

-----------------------------------------------------------------------------
(* Pool records served by the repository (the Pool type of @/types) *)

\* `undefined` for a node reference, a slot index or a token's decimals.
undefined == 0

\* A pool record.  tokensList and tokens[i].address are the same list;
\* tokenDecimals[i] is tokens[i].decimals; parsedBalances is what
\* parsePoolInfo(pool) returns for the record; mainIndex and wrappedIndex are
\* 1-based slots of tokensList.
Pool(address, id, poolType, tokensList, tokenDecimals, parsedBalances, mainIndex, wrappedIndex) ==
    [address |-> address, id |-> id, poolType |-> poolType,
     tokensList |-> tokensList, tokenDecimals |-> tokenDecimals,
     parsedBalances |-> parsedBalances,
     mainIndex |-> mainIndex, wrappedIndex |-> wrappedIndex]

NoPool == [address |-> "none"]

\* this.pools.find(poolId)
find(ps, poolId) ==
    IF \E p \in ps : p.id = poolId
    THEN CHOOSE p \in ps : p.id = poolId
    ELSE NoPool

\* this.pools.findBy('address', address)
findBy(ps, address) ==
    IF \E p \in ps : p.address = address
    THEN CHOOSE p \in ps : p.address = address
    ELSE NoPool

\* The parsed balance of the pool's own token (phantom BPT) in its own list.
PhantomBalance == MaxBalance + 3

\* Token lists the root pool 0xr and the nested pool 0xb may have.
RootTokenLists == { <<"0xr", "0xb">>, <<"0xx", "0xl">>, <<"0xb", "0xl">>,
                    <<"0xY", "0xb", "0xm">> }
NestedTokenLists == { <<"0xy">>, <<"0xY", "0xb", "0xz">>, <<"0xz", "0xl">> }

\* All balance vectors of a token list: 0..MaxBalance for every token but
\* the pool's own, whose phantom balance is fixed.
BalanceVectors(address, tokensList) ==
    { b \in [DOMAIN tokensList -> 0 .. PhantomBalance] :
        \A i \in DOMAIN tokensList :
            IF tokensList[i] = address THEN b[i] = PhantomBalance
            ELSE b[i] <= MaxBalance }

\* One uneven balance vector per token list: 1 in the odd slots, MaxBalance
\* in the even ones.
UnevenVectors(address, tokensList) ==
    { [i \in DOMAIN tokensList |->
        IF tokensList[i] = address THEN PhantomBalance
        ELSE IF i % 2 = 1 THEN 1 ELSE MaxBalance] }

\* decimals of the tokens of the model; 0 stands for a missing field
DecimalsOf(address) ==
    CASE address = "0xx" -> 6
      [] address = "0xz" -> undefined
      [] OTHER -> 18

DecimalsList(tokensList) == [i \in DOMAIN tokensList |-> DecimalsOf(tokensList[i])]

\* Pools that are the same in every repository: two well-formed linear pools,
\* a linear pool without a main token slot, a linear pool without a wrapped
\* token slot, and a pool of a type the action tables do not know.
FixedPools ==
    { Pool("0xl", "l-id", "AaveLinear", <<"0xx", "0xw", "0xl">>,
           <<6, 18, 18>>, <<1, 1, PhantomBalance>>, 1, 2),
      Pool("0xm", "m-id", "ERC4626Linear", <<"0xm", "0xz", "0xw">>,
           <<undefined, undefined, 18>>, <<PhantomBalance, 1, 0>>, 2, 3),
      Pool("0xn", "n-id", "AaveLinear", <<"0xx", "0xw", "0xn">>,
           <<6, 18, 18>>, <<1, 1, PhantomBalance>>, undefined, 2),
      Pool("0xo", "o-id", "ERC4626Linear", <<"0xx", "0xw", "0xo">>,
           <<6, 18, 18>>, <<1, 1, PhantomBalance>>, 1, undefined),
      Pool("0xu", "u-id", "Gyro2", <<"0xx", "0xy">>,
           <<6, 18>>, <<1, 1>>, undefined, undefined) }

\* The balance vectors a repository draws from: all of them, or the uneven
\* one alone.
Vectors(all, address, tokensList) ==
    IF all THEN BalanceVectors(address, tokensList)
    ELSE UnevenVectors(address, tokensList)

\* The repositories of the model: the fixed pools, the root pool 0xr and the
\* nested pool 0xb, with every token list and every balance vector for the
\* two.
PoolTables(all) ==
    UNION { UNION {
        { FixedPools \cup
            { Pool("0xr", "r-id", "ComposableStable", rt, DecimalsList(rt), rb, undefined, undefined),
              Pool("0xb", "b-id", "Weighted", nt, DecimalsList(nt), nb, undefined, undefined) } :
            rb \in Vectors(all, "0xr", rt), nb \in Vectors(all, "0xb", nt) } :
        nt \in NestedTokenLists } : rt \in RootTokenLists }

PoolIds == {"r-id", "b-id", "l-id", "m-id", "n-id", "o-id", "u-id", "x-id"}

-----------------------------------------------------------------------------
(* Nodes *)

\* createInputTokenNode returning the index it was given, not the next one.
createInputTokenNode_noAdvance(nodeIndex, address, decimals, parent, proportionOfParent) ==
    [node |->
        [address |-> address, id |-> "N/A", type |-> "Input",
         children |-> <<>>, marked |-> FALSE,
         joinAction |-> "input", exitAction |-> "output",
         index |-> toString(nodeIndex), parent |-> parent,
         proportionOfParent |-> proportionOfParent,
         isLeaf |-> TRUE, spotPrices |-> {}, decimals |-> decimals],
     nodeIndex |-> nodeIndex]

\* PoolGraph.createInputTokenNode: the new node and the advanced index.
createInputTokenNode(nodeIndex, address, decimals, parent, proportionOfParent) ==
    [node |->
        [address |-> address, id |-> "N/A", type |-> "Input",
         children |-> <<>>, marked |-> FALSE,
         joinAction |-> "input", exitAction |-> "output",
         index |-> toString(nodeIndex), parent |-> parent,
         proportionOfParent |-> proportionOfParent,
         isLeaf |-> TRUE, spotPrices |-> {}, decimals |-> decimals],
     nodeIndex |-> nodeIndex + 1]

\* `decimals ?? 18`
orEighteen(decimals) == IF decimals = undefined THEN 18 ELSE decimals

\* getTokenTotal without the test on bptIndex: the phantom BPT balance counts.
getTokenTotal_withPhantom(pool) == SumSeq(pool.parsedBalances)

\* PoolGraph.getTokenTotal: the sum of the parsed balances but the phantom
\* BPT's, whose slot is tokensList.indexOf(pool.address).
getTokenTotal(pool) ==
    LET bptIndex == indexOf(pool.tokensList, pool.address)
    IN  SumSeq([i \in DOMAIN pool.parsedBalances |->
                    IF bptIndex # i THEN pool.parsedBalances[i] ELSE 0])

\* The outcome of a build step: the store, the node built, the advanced
\* index and the error thrown ("" when none).
Built(h, node, nodeIndex) == [heap |-> h, node |-> node, nodeIndex |-> nodeIndex, err |-> ""]
Thrown(err) == [heap |-> <<>>, node |-> undefined, nodeIndex |-> 0, err |-> err]

\* PoolGraph.createWrappedTokenNode: the WrappedToken node and, under it, the
\* Input leaf of the main token, both with the given proportionOfParent.
createWrappedTokenNode(h, linearPool, nodeIndex, parent, proportionOfParent) ==
    IF linearPool.wrappedIndex = undefined \/ linearPool.mainIndex = undefined
    THEN Thrown("Issue With Linear Pool")
    ELSE
        LET wrapped == Len(h) + 1
            wrappedTokenNode ==
                [type |-> "WrappedToken",
                 address |-> linearPool.tokensList[linearPool.wrappedIndex],
                 id |-> "N/A", children |-> <<>>, marked |-> FALSE,
                 joinAction |-> IF linearPool.poolType = "ERC4626Linear"
                                THEN "wrapERC4626" ELSE "wrapAaveDynamicToken",
                 exitAction |-> IF linearPool.poolType = "ERC4626Linear"
                                THEN "unwrapERC4626" ELSE "unwrapAaveStaticToken",
                 index |-> toString(nodeIndex), parent |-> parent,
                 proportionOfParent |-> proportionOfParent,
                 isLeaf |-> FALSE, spotPrices |-> {}, decimals |-> 18]
            inputNode ==
                createInputTokenNode(
                    nodeIndex + 1,
                    linearPool.tokensList[linearPool.mainIndex],
                    orEighteen(linearPool.tokenDecimals[linearPool.mainIndex]),
                    wrapped,
                    proportionOfParent)
            h1 == Append(Append(h, wrappedTokenNode), inputNode.node)
        IN  Built([h1 EXCEPT ![wrapped].children = <<Len(h) + 2>>],
                  wrapped, inputNode.nodeIndex)

\* createLinearNodeChildren taking the wrapped-token branch whatever
\* wrapMainTokens says.
createLinearNodeChildren_alwaysWrap(h, linearPoolNode, nodeIndex, linearPool, wrapMainTokens) ==
    LET wrappedNodeInfo ==
            createWrappedTokenNode(h, linearPool, nodeIndex, linearPoolNode,
                                   h[linearPoolNode].proportionOfParent)
    IN  IF wrappedNodeInfo.err # "" THEN wrappedNodeInfo
        ELSE Built([wrappedNodeInfo.heap EXCEPT
                        ![linearPoolNode].children = Append(@, wrappedNodeInfo.node)],
                   linearPoolNode, wrappedNodeInfo.nodeIndex)

\* PoolGraph.createLinearNodeChildren: the single child of a linear pool
\* node, the wrapped token's node or the main token's Input leaf.
createLinearNodeChildren(h, linearPoolNode, nodeIndex, linearPool, wrapMainTokens) ==
    IF wrapMainTokens
    THEN
        LET wrappedNodeInfo ==
                createWrappedTokenNode(h, linearPool, nodeIndex, linearPoolNode,
                                       h[linearPoolNode].proportionOfParent)
        IN  IF wrappedNodeInfo.err # "" THEN wrappedNodeInfo
            ELSE Built([wrappedNodeInfo.heap EXCEPT
                            ![linearPoolNode].children = Append(@, wrappedNodeInfo.node)],
                       linearPoolNode, wrappedNodeInfo.nodeIndex)
    ELSE
        IF linearPool.mainIndex = undefined
        THEN Thrown("Issue With Linear Pool")
        ELSE
            LET nodeInfo ==
                    createInputTokenNode(
                        nodeIndex,
                        linearPool.tokensList[linearPool.mainIndex],
                        orEighteen(linearPool.tokenDecimals[linearPool.mainIndex]),
                        linearPoolNode,
                        h[linearPoolNode].proportionOfParent)
                h1 == Append(h, nodeInfo.node)
            IN  Built([h1 EXCEPT ![linearPoolNode].children = Append(@, Len(h1))],
                      linearPoolNode, nodeInfo.nodeIndex)

RECURSIVE buildGraphFromPool(_, _, _, _, _, _, _)
RECURSIVE buildChildren(_, _, _, _, _, _, _, _, _)

\* The loop of buildGraphFromPool over pool.tokens, from token i on: one
\* child subtree per token that is not the pool's own, each fully built
\* before the next is started.
buildChildren(ps, h, pool, poolNode, i, nodeIndex, tokenTotal, proportionOfParent, wrapMainTokens) ==
    IF i > Len(pool.tokensList) THEN Built(h, poolNode, nodeIndex)
    ELSE IF pool.tokensList[i] = pool.address
    THEN buildChildren(ps, h, pool, poolNode, i + 1, nodeIndex, tokenTotal,
                       proportionOfParent, wrapMainTokens)
    ELSE IF tokenTotal = 0 THEN Thrown("division-by-zero")
    ELSE
        LET proportion == (pool.parsedBalances[i] * WeiPerEther) \div tokenTotal
            finalProportion == (proportion * proportionOfParent) \div WeiPerEther
            childNode == buildGraphFromPool(ps, h, pool.tokensList[i], nodeIndex,
                                            poolNode, finalProportion, wrapMainTokens)
        IN  IF childNode.err # "" THEN childNode
            ELSE buildChildren(
                    ps,
                    [childNode.heap EXCEPT ![poolNode].children = Append(@, childNode.node)],
                    pool, poolNode, i + 1, childNode.nodeIndex, tokenTotal,
                    proportionOfParent, wrapMainTokens)

\* PoolGraph.buildGraphFromPool
buildGraphFromPool(ps, h, address, nodeIndex, parent, proportionOfParent, wrapMainTokens) ==
    LET pool == findBy(ps, address)
    IN  IF pool = NoPool
        THEN
            IF parent = undefined THEN Thrown("POOL_DOESNT_EXIST")
            ELSE
                LET parentPool == findBy(ps, h[parent].address)
                    leafTokenDecimals ==
                        orEighteen(parentPool.tokenDecimals[indexOf(parentPool.tokensList, address)])
                    nodeInfo == createInputTokenNode(nodeIndex, address, leafTokenDecimals,
                                                     parent, proportionOfParent)
                IN  Built(Append(h, nodeInfo.node), Len(h) + 1, nodeInfo.nodeIndex)
        ELSE IF pool.poolType \notin DOMAIN joinActions \/ pool.poolType \notin DOMAIN exitActions
        THEN Thrown("UNSUPPORTED_POOL_TYPE")
        ELSE
            LET tokenTotal == getTokenTotal(pool)
                bpt == indexOf(pool.tokensList, pool.address)
                poolNode ==
                    [address |-> pool.address, id |-> pool.id, type |-> pool.poolType,
                     joinAction |-> joinActions[pool.poolType],
                     exitAction |-> exitActions[pool.poolType],
                     children |-> <<>>, marked |-> FALSE,
                     index |-> toString(nodeIndex), parent |-> parent,
                     proportionOfParent |-> proportionOfParent,
                     isLeaf |-> FALSE,
                     spotPrices |-> Range(pool.tokensList) \ {pool.address},
                     decimals |-> IF bpt # 0 /\ pool.tokenDecimals[bpt] # undefined
                                  THEN pool.tokenDecimals[bpt] ELSE 18]
                h1 == Append(h, poolNode)
            IN  IF includesLinear(pool.poolType)
                THEN createLinearNodeChildren(h1, Len(h1), nodeIndex + 1, pool, wrapMainTokens)
                ELSE buildChildren(ps, h1, pool, Len(h1), 1, nodeIndex + 1, tokenTotal,
                                   proportionOfParent, wrapMainTokens)

\* PoolGraph.buildGraphFromRootPool
buildGraphFromRootPool(ps, poolId, wrapMainTokens) ==
    LET rootPool == find(ps, poolId)
    IN  IF rootPool = NoPool THEN Thrown("POOL_DOESNT_EXIST")
        ELSE buildGraphFromPool(ps, <<>>, rootPool.address, 0, undefined,
                                WeiPerEther, wrapMainTokens)

-----------------------------------------------------------------------------
(* Traversal *)

RECURSIVE forEachChild(_, _, _, _)
RECURSIVE bfsLoop(_, _, _)

\* currentNode.children.forEach of orderByBfs, from child i on: every child
\* not yet marked is marked and pushed on the queue.
forEachChild(h, nodes, children, i) ==
    IF i > Len(children) THEN [heap |-> h, nodes |-> nodes]
    ELSE IF ~h[children[i]].marked
    THEN forEachChild([h EXCEPT ![children[i]].marked = TRUE],
                      Append(nodes, children[i]), children, i + 1)
    ELSE forEachChild(h, nodes, children, i + 1)

\* The loop of orderByBfs taking the node pushed last (pop) instead of the
\* one pushed first (shift).
bfsLoop_pop(h, nodes, ordered) ==
    IF Len(nodes) = 0 THEN [heap |-> h, orderedNodes |-> ordered]
    ELSE
        LET currentNode == nodes[Len(nodes)]
            r == forEachChild(h, SubSeq(nodes, 1, Len(nodes) - 1),
                              h[currentNode].children, 1)
        IN  bfsLoop(r.heap, r.nodes, Append(ordered, currentNode))

\* The while loop of orderByBfs over the queue `nodes`.
bfsLoop(h, nodes, ordered) ==
    IF Len(nodes) = 0 THEN [heap |-> h, orderedNodes |-> ordered]
    ELSE
        LET currentNode == Head(nodes)
            r == forEachChild(h, Tail(nodes), h[currentNode].children, 1)
        IN  bfsLoop(r.heap, r.nodes, Append(ordered, currentNode))

\* PoolGraph.orderByBfs: the store with the marks set, and the nodes in the
\* order they left the queue.
orderByBfs(h, root) == bfsLoop([h EXCEPT ![root].marked = TRUE], <<root>>, <<>>)

-----------------------------------------------------------------------------
(* Path extraction *)

Found(h, nodes) == [heap |-> h, nodes |-> nodes, err |-> ""]

\* orderedNodes.find(node => node.address.toLowerCase() === inputToken.toLowerCase()):
\* the first match, or undefined.
RECURSIVE findNode(_, _, _, _)
findNode(h, ordered, inputToken, i) ==
    IF i > Len(ordered) THEN undefined
    ELSE IF toLowerCase(h[ordered[i]].address) = toLowerCase(inputToken) THEN ordered[i]
    ELSE findNode(h, ordered, inputToken, i + 1)

\* The while loop of getNodesToRoot: one new node per ancestor, a copy of the
\* ancestor ({ ...parentNode }) with proportion 0 and the running index.  The
\* first copy gets a new children array: the ancestor's children but those
\* with the input's address, each of them (the object of the tree itself)
\* with its index set to '0', and then nodesToRoot[0].
RECURSIVE walkToRoot(_, _, _, _, _)
walkToRoot(h, nodesToRoot, parentNode, index, startingIndex) ==
    IF parentNode = undefined THEN Found(h, nodesToRoot)
    ELSE
        LET node == Len(h) + 1
            copy == [h[parentNode] EXCEPT !.proportionOfParent = 0,
                                          !.index = toString(index)]
            Other(c) == toLowerCase(h[c].address) # toLowerCase(h[nodesToRoot[1]].address)
            childrenWithoutRoot == SelectSeq(copy.children, Other)
            zeroed == [n \in DOMAIN h |->
                          IF n \in Range(childrenWithoutRoot)
                          THEN [h[n] EXCEPT !.index = "0"] ELSE h[n]]
            h1 == IF index - 1 = startingIndex
                  THEN Append(zeroed,
                              [copy EXCEPT !.children =
                                  Append(childrenWithoutRoot, nodesToRoot[1])])
                  ELSE Append(h, copy)
        IN  walkToRoot(h1, Append(nodesToRoot, node), h[parentNode].parent,
                       index + 1, startingIndex)

\* The walk up starting at the matched node itself.
startOfWalk_self(h, inputNode) == inputNode

\* Where the walk up starts: `let parentNode = inputNode.parent`.
startOfWalk(h, inputNode) == h[inputNode].parent

\* PoolGraph.getNodesToRoot
getNodesToRoot(h, ordered, inputToken, startingIndex) ==
    IF toLowerCase(inputToken) = toLowerCase(h[ordered[Len(ordered)]].address)
    THEN [heap |-> h, nodes |-> <<>>, err |-> "INPUT_TOKEN_INVALID"]
    ELSE
        LET inputNode == findNode(h, ordered, inputToken, 1)
        IN  IF inputNode = undefined
            THEN [heap |-> h, nodes |-> <<>>, err |-> "INPUT_TOKEN_INVALID"]
            ELSE IF h[inputNode].joinAction # "input"
            THEN
                LET inputTokenNode ==
                        createInputTokenNode(startingIndex, inputToken,
                                             h[inputNode].decimals,
                                             h[inputNode].parent, WeiPerEther).node
                IN  walkToRoot(Append(h, inputTokenNode), <<Len(h) + 1>>,
                               startOfWalk(h, inputNode), startingIndex + 1, startingIndex)
            ELSE
                \* the copy gets the 100% and the index '0'; the node pushed
                \* is inputNode itself
                LET inputTokenNode ==
                        [h[inputNode] EXCEPT !.proportionOfParent = WeiPerEther,
                                             !.index = "0"]
                IN  walkToRoot(Append(h, inputTokenNode), <<inputNode>>,
                               startOfWalk(h, inputNode), startingIndex + 1, startingIndex)

-----------------------------------------------------------------------------
(* The PoolGraph state machine *)

\* Addresses a caller may pass as inputToken.
InputTokens == {"0xR", "0xB", "0xl", "0xw", "0xx", "0xy", "0xz"}

Call(op, token, num, flag) == [op |-> op, token |-> token, num |-> num, flag |-> flag]

NoResult == [status |-> "none", nodes |-> <<>>]

\* A PoolGraph over a repository, nothing built yet.
GraphInitOver(tables) ==
    /\ pools \in tables
    /\ heap = <<>>
    /\ built = [status |-> "none", root |-> undefined, size |-> 0,
                wrapMainTokens |-> FALSE]
    /\ orderedNodes = <<>>
    /\ result = NoResult
    /\ last = Call("none", "", 0, FALSE)

\* A PoolsFallbackRepository as constructed: nobody has queried it.
RepoInit ==
    /\ currentProviderIdx = 0
    /\ queries = [q \in 1 .. NumQueries |->
                    [pc |-> "idle", func |-> "", tried |-> <<>>]]

\* await poolGraph.buildGraphFromRootPool(poolId, wrapMainTokens).  The model
\* follows one build and the tree it returns; a build that throws returns
\* none.
BuildGraphFromRootPool ==
    /\ built.status = "none"
    /\ \E poolId \in PoolIds, wrapMainTokens \in BOOLEAN :
        LET r == buildGraphFromRootPool(pools, poolId, wrapMainTokens)
        IN  /\ heap' = r.heap
            /\ built' = IF r.err = ""
                        THEN [status |-> "ok", root |-> r.node, size |-> Len(r.heap),
                              wrapMainTokens |-> wrapMainTokens]
                        ELSE [status |-> r.err, root |-> undefined, size |-> 0,
                              wrapMainTokens |-> wrapMainTokens]
            /\ last' = Call("buildGraphFromRootPool", poolId, 0, wrapMainTokens)
    /\ orderedNodes' = <<>>
    /\ result' = NoResult
    /\ UNCHANGED <<pools>>
    /\ UNCHANGED repoVars

\* The nodes of the built tree; the nodes getNodesToRoot made come after them
\* in the store.
TreeNodes == 1 .. built.size
Tree == SubSeq(heap, 1, built.size)

\* PoolGraph.orderByBfs(rootNode)
OrderByBfs ==
    /\ built.status = "ok"
    /\ LET r == orderByBfs(Tree, built.root)
       IN  /\ heap' = r.heap
           /\ orderedNodes' = r.orderedNodes
    /\ result' = NoResult
    /\ last' = Call("orderByBfs", "", 0, FALSE)
    /\ UNCHANGED <<pools, built>>
    /\ UNCHANGED repoVars

\* PoolGraph.getNodesToRoot(orderedNodes, inputToken, startingIndex) on the
\* list orderByBfs returned.  The nodes an earlier call made are unreachable
\* from the tree and from this call's result, and are dropped.
GetNodesToRoot ==
    /\ Len(orderedNodes) > 0
    /\ \E inputToken \in InputTokens, startingIndex \in 0 .. MaxStartingIndex :
        LET r == getNodesToRoot(Tree, orderedNodes, inputToken, startingIndex)
        IN  /\ heap' = r.heap
            /\ result' = [status |-> IF r.err = "" THEN "ok" ELSE r.err,
                          nodes |-> r.nodes]
            /\ last' = Call("getNodesToRoot", inputToken, startingIndex, FALSE)
    /\ UNCHANGED <<pools, built, orderedNodes>>
    /\ UNCHANGED repoVars

\* The life of one tree: built, ordered, paths extracted from it.
Init == GraphInitOver(PoolTables(FALSE)) /\ RepoInit

Next ==
    \/ BuildGraphFromRootPool
    \/ OrderByBfs
    \/ GetNodesToRoot

Spec == Init /\ [][Next]_vars

\* The builds alone, over every balance vector.
BuildInit == GraphInitOver(PoolTables(TRUE)) /\ RepoInit

BuildNext == BuildGraphFromRootPool

BuildSpec == BuildInit /\ [][BuildNext]_vars

-----------------------------------------------------------------------------
(* PoolsFallbackRepository *)

\* A query is idle (not made yet), waiting (suspended in the await of
\* Promise.race on a provider's answer), done (a provider answered) or failed
\* ('No working providers found' was thrown).  tried lists the providers
\* (0-based, as currentProviderIdx) its calls went to, in order.

\* fallbackQuery(func, args) up to its await: throws when no provider is
\* left, else calls the current provider and suspends.
fallbackQuery(q, func, idx) ==
    IF idx >= NumProviders
    THEN [q EXCEPT !.pc = "failed", !.func = func]
    ELSE [q EXCEPT !.pc = "waiting", !.func = func, !.tried = Append(@, idx)]

StartQuery(i, func) ==
    /\ queries[i].pc = "idle"
    /\ queries' = [queries EXCEPT ![i] = fallbackQuery(@, func, currentProviderIdx)]
    /\ UNCHANGED currentProviderIdx
    /\ UNCHANGED graphVars

\* PoolsFallbackRepository.find(id)
Find == \E i \in 1 .. NumQueries : StartQuery(i, "find")

\* PoolsFallbackRepository.findBy(attribute, value)
FindBy == \E i \in 1 .. NumQueries : StartQuery(i, "findBy")

\* PoolsFallbackRepository.fetch(options)
Fetch == \E i \in 1 .. NumQueries : StartQuery(i, "fetch")

\* The provider's promise wins the race: fallbackQuery returns its result.
ProviderAnswers ==
    \E i \in 1 .. NumQueries :
        /\ queries[i].pc = "waiting"
        /\ queries' = [queries EXCEPT ![i].pc = "done"]
        /\ UNCHANGED currentProviderIdx
        /\ UNCHANGED graphVars

\* The race rejects, by the timeout or by the provider's own error: the catch
\* block increments the shared currentProviderIdx and calls fallbackQuery
\* again, which runs to its next await in the same turn.
ProviderFails ==
    \E i \in 1 .. NumQueries :
        /\ queries[i].pc = "waiting"
        /\ currentProviderIdx' = currentProviderIdx + 1
        /\ queries' = [queries EXCEPT
                          ![i] = fallbackQuery(@, @.func, currentProviderIdx + 1)]
        /\ UNCHANGED graphVars

\* No PoolGraph at all next to the repository.
RepoSpecInit == GraphInitOver({{}}) /\ RepoInit

RepoNext ==
    \/ Find
    \/ FindBy
    \/ Fetch
    \/ ProviderAnswers
    \/ ProviderFails

RepoSpec == RepoSpecInit /\ [][RepoNext]_vars

-----------------------------------------------------------------------------
(* Properties: common definitions *)

\* The node of the ordered list that getNodesToRoot's find matches with the
\* token of the last call (undefined when none).
Matched == findNode(Tree, orderedNodes, last.token, 1)

IsPoolNode(n) == heap[n].id # "N/A"

\* Number of nodes on the parent chain from n up to the root, n included.
RECURSIVE Depth(_, _)
Depth(h, n) == IF h[n].parent = undefined THEN 1 ELSE 1 + Depth(h, h[n].parent)

\* The ancestors of n, nearest first.
RECURSIVE Ancestors(_, _)
Ancestors(h, n) ==
    IF h[n].parent = undefined THEN <<>>
    ELSE <<h[n].parent>> \o Ancestors(h, h[n].parent)

ChildSum(n) ==
    SumSeq([i \in DOMAIN heap[n].children |->
                heap[heap[n].children[i]].proportionOfParent])

-----------------------------------------------------------------------------
(* C1 *)

\* C1: getNodesToRoot on the list orderByBfs returned (root first) fails with
\* INPUT_TOKEN_INVALID whenever inputToken is the root's address, compared
\* case-insensitively; it returns no node sequence then.
C1_RootTokenRejected ==
    (/\ last.op = "getNodesToRoot"
     /\ toLowerCase(last.token) = toLowerCase(heap[built.root].address))
        => (result.status = "INPUT_TOKEN_INVALID" /\ result.nodes = <<>>)

-----------------------------------------------------------------------------
(* C2 *)

\* ordered lists every one of the `size` nodes once, the root first, level by
\* level, the children of a node in their declared order and the children of
\* an earlier node before those of a later one.
LevelOrder(h, ordered, root, size) ==
    /\ Len(ordered) = size
    /\ Range(ordered) = 1 .. size
    /\ ordered[1] = root
    /\ \A i, j \in DOMAIN ordered :
        i < j =>
            /\ Depth(h, ordered[i]) <= Depth(h, ordered[j])
            /\ Depth(h, ordered[i]) = Depth(h, ordered[j]) =>
                LET pi == h[ordered[i]].parent
                    pj == h[ordered[j]].parent
                IN  IF pi = pj
                    THEN indexOf(h[pi].children, ordered[i])
                            < indexOf(h[pi].children, ordered[j])
                    ELSE indexOf(ordered, pi) < indexOf(ordered, pj)

\* C2: orderByBfs on the root of a freshly built tree (no node marked) returns
\* every node of the tree exactly once, the root first, in level order.
C2_BfsLevelOrder ==
    [][(/\ last'.op = "orderByBfs"
        /\ built.status = "ok"
        /\ \A n \in TreeNodes : ~heap[n].marked)
            => LevelOrder(heap', orderedNodes', built.root, built.size)]_vars

\* A tree of three levels with two children under the root has been ordered.
C2_Witness ==
    /\ last.op = "orderByBfs"
    /\ Len(orderedNodes) = built.size
    /\ Len(heap[built.root].children) >= 2
    /\ \E n \in TreeNodes : Depth(heap, n) >= 3

-----------------------------------------------------------------------------
(* C3 *)

\* C3: in a built tree the proportions of a pool node's children add up to
\* the node's own proportion, less at most two units per child (the two
\* floor divisions), and never more.
C3_ProportionConservation ==
    built.status = "ok" =>
        \A n \in TreeNodes :
            IsPoolNode(n) =>
                /\ ChildSum(n) <= heap[n].proportionOfParent
                /\ heap[n].proportionOfParent - ChildSum(n)
                        <= 2 * Len(heap[n].children)

\* A nested pool with several children whose proportions were rounded down.
C3_Witness ==
    /\ built.status = "ok"
    /\ \E n \in TreeNodes :
        /\ IsPoolNode(n)
        /\ heap[n].parent # undefined
        /\ Len(heap[n].children) >= 2
        /\ heap[n].proportionOfParent < WeiPerEther
        /\ ChildSum(n) < heap[n].proportionOfParent

-----------------------------------------------------------------------------
(* C4 *)

\* The tree root <- poolB <- leafY, ordered, and getNodesToRoot called with
\* poolB's address.
C4_Case ==
    /\ built.status = "ok"
    /\ built.size = 3
    /\ heap[1].children = <<2>>
    /\ heap[2].children = <<3>>
    /\ IsPoolNode(2)
    /\ heap[3].isLeaf
    /\ orderedNodes = <<1, 2, 3>>
    /\ last.op = "getNodesToRoot"
    /\ toLowerCase(last.token) = toLowerCase(heap[2].address)

\* The first node of the result is a new Input node for the token passed,
\* with 100%.
C4_SynthesizedFirst ==
    /\ result.status = "ok"
    /\ Len(result.nodes) >= 1
    /\ result.nodes[1] > built.size
    /\ heap[result.nodes[1]].type = "Input"
    /\ heap[result.nodes[1]].isLeaf
    /\ heap[result.nodes[1]].address = last.token
    /\ heap[result.nodes[1]].proportionOfParent = WeiPerEther

\* C4 as claimed: the result is the synthesized Input node, a copy of poolB
\* and a copy of root, both copies with proportion 0, and the children of
\* poolB's copy are the synthesized node alone.
C4_Original ==
    C4_Case =>
        /\ C4_SynthesizedFirst
        /\ Len(result.nodes) = 3
        /\ heap[result.nodes[2]].address = heap[2].address
        /\ heap[result.nodes[2]].proportionOfParent = 0
        /\ heap[result.nodes[2]].children = <<result.nodes[1]>>
        /\ heap[result.nodes[3]].address = heap[1].address
        /\ heap[result.nodes[3]].proportionOfParent = 0

\* C4 amended: the result is the synthesized Input node, whose parent is the
\* root, followed by a copy of the root alone, with proportion 0, whose
\* children are the synthesized node alone (it stands in poolB's place);
\* the result holds no copy of poolB and leafY is in nobody's children.
C4_Amended ==
    C4_Case =>
        /\ C4_SynthesizedFirst
        /\ heap[result.nodes[1]].parent = built.root
        /\ Len(result.nodes) = 2
        /\ result.nodes[2] > built.size
        /\ heap[result.nodes[2]].address = heap[1].address
        /\ heap[result.nodes[2]].id = heap[1].id
        /\ heap[result.nodes[2]].proportionOfParent = 0
        /\ heap[result.nodes[2]].children = <<result.nodes[1]>>
        /\ \A k \in DOMAIN result.nodes : heap[result.nodes[k]].id # heap[2].id

C4_Witness == C4_Case /\ result.status = "ok"

-----------------------------------------------------------------------------
(* C5 *)

\* C5: a call of getNodesToRoot, returning or throwing, leaves the index,
\* the proportion, the children and the parent of every node of the tree as
\* they were.
C5_TreeNotMutated ==
    [][last'.op = "getNodesToRoot" =>
        \A n \in TreeNodes :
            /\ heap'[n].index = heap[n].index
            /\ heap'[n].proportionOfParent = heap[n].proportionOfParent
            /\ heap'[n].children = heap[n].children
            /\ heap'[n].parent = heap[n].parent]_vars

-----------------------------------------------------------------------------
(* C6 *)

\* C6: when the matched node is an Input leaf, the first node returned has
\* proportion 100% and index "0".
C6_LeafInputRewritten ==
    (/\ last.op = "getNodesToRoot"
     /\ result.status = "ok"
     /\ heap[Matched].joinAction = "input")
        => /\ heap[result.nodes[1]].proportionOfParent = WeiPerEther
           /\ heap[result.nodes[1]].index = "0"

-----------------------------------------------------------------------------
(* C7 *)

\* C7: orderByBfs called again on the root of the same tree returns the
\* sequence it returned before, with every node of the tree.
C7_BfsRepeatable ==
    [][(last'.op = "orderByBfs" /\ Len(orderedNodes) > 0)
        => (orderedNodes' = orderedNodes /\ Range(orderedNodes') = TreeNodes)]_vars

-----------------------------------------------------------------------------
(* C8 *)

\* The one child of node n is an Input leaf for the address, with n's
\* proportion and nothing under it.
InputLeafUnder(n, address) ==
    /\ Len(heap[n].children) = 1
    /\ LET c == heap[n].children[1]
       IN  /\ heap[c].type = "Input"
           /\ heap[c].isLeaf
           /\ heap[c].children = <<>>
           /\ heap[c].address = address
           /\ heap[c].parent = n
           /\ heap[c].proportionOfParent = heap[n].proportionOfParent

\* A root pool of two tokens, the second of them a linear pool.
C8_Case ==
    /\ built.status = "ok"
    /\ Len(findBy(pools, heap[built.root].address).tokensList) = 2
    /\ Len(heap[built.root].children) = 2
    /\ includesLinear(heap[heap[built.root].children[2]].type)

\* C8: under a linear pool node built with wrapMainTokens there is one
\* WrappedToken node and under it the Input leaf of the main token; built
\* without, the Input leaf of the main token is the linear pool's one child.
\* All carry the linear pool's proportion, and orderByBfs lists them in the
\* order linear pool, WrappedToken node, Input leaf.
C8_LinearWrapToggle ==
    C8_Case =>
        LET n == heap[built.root].children[2]
            linearPool == findBy(pools, heap[n].address)
            main == linearPool.tokensList[linearPool.mainIndex]
            c == heap[n].children[1]
        IN  /\ Len(heap[n].children) = 1
            /\ IF built.wrapMainTokens
               THEN /\ heap[c].type = "WrappedToken"
                    /\ ~heap[c].isLeaf
                    /\ heap[c].address = linearPool.tokensList[linearPool.wrappedIndex]
                    /\ heap[c].proportionOfParent = heap[n].proportionOfParent
                    /\ InputLeafUnder(c, main)
                    /\ Len(orderedNodes) = built.size =>
                        /\ indexOf(orderedNodes, n) < indexOf(orderedNodes, c)
                        /\ indexOf(orderedNodes, c)
                                < indexOf(orderedNodes, heap[c].children[1])
               ELSE /\ InputLeafUnder(n, main)
                    /\ Len(orderedNodes) = built.size =>
                        indexOf(orderedNodes, n) < indexOf(orderedNodes, c)

\* Such a tree, built with wrapMainTokens and ordered: the linear pool has
\* less than the whole of the root's amount.
C8_Witness ==
    /\ C8_Case
    /\ built.wrapMainTokens
    /\ last.op = "orderByBfs"
    /\ Len(orderedNodes) = built.size
    /\ heap[heap[built.root].children[2]].proportionOfParent < WeiPerEther
    /\ heap[heap[built.root].children[2]].proportionOfParent > 0

-----------------------------------------------------------------------------
(* C9 *)

\* The providers on which a call of query i has timed out or failed: all it
\* tried but the one it waits for or got its answer from.
FailedOn(i) ==
    LET t == queries[i].tried
    IN  IF queries[i].pc = "failed" THEN Range(t)
        ELSE {t[k] : k \in 1 .. Len(t) - 1}

FailedProviders == UNION {FailedOn(i) : i \in 1 .. NumQueries}

\* C9: the providers are used in order.  A query that falls back goes to the
\* provider next to the one that failed it, a query gives up only when every
\* provider has failed it, and no provider is passed over (by the shared
\* currentProviderIdx) unless a call to it has failed.
C9_ProvidersInOrder ==
    /\ \A i \in 1 .. NumQueries :
        /\ \A k \in 1 .. Len(queries[i].tried) - 1 :
            queries[i].tried[k + 1] = queries[i].tried[k] + 1
        /\ queries[i].pc = "failed" => FailedProviders = 0 .. NumProviders - 1
    /\ \A p \in 0 .. NumProviders - 1 :
        p < currentProviderIdx => p \in FailedProviders

-----------------------------------------------------------------------------
(* C10 *)

\* The result is the input node followed by one new node per ancestor of the
\* matched node, nearest first, each a copy of its ancestor with proportion 0
\* and the indices startingIndex + 1, + 2, ...; the first copy's children are
\* the ancestor's children of another address than the input's, all with
\* index "0", and then the input node; the other copies keep the children.
PathToRoot(matched) ==
    LET up == Ancestors(Tree, matched)
        input == result.nodes[1]
    IN  /\ result.status = "ok"
        /\ Len(result.nodes) = 1 + Len(up)
        /\ toLowerCase(heap[input].address) = toLowerCase(last.token)
        /\ heap[input].type = "Input"
        /\ \A k \in DOMAIN up :
            LET copy == heap[result.nodes[k + 1]]
                others == SelectSeq(heap[up[k]].children,
                                    LAMBDA c : toLowerCase(heap[c].address)
                                                    # toLowerCase(last.token))
            IN  /\ result.nodes[k + 1] > built.size
                /\ copy.address = heap[up[k]].address
                /\ copy.id = heap[up[k]].id
                /\ copy.type = heap[up[k]].type
                /\ copy.parent = heap[up[k]].parent
                /\ copy.proportionOfParent = 0
                /\ copy.index = toString(last.num + k)
                /\ IF k = 1
                   THEN /\ copy.children = Append(others, input)
                        /\ \A c \in Range(others) : heap[c].index = "0"
                   ELSE copy.children = heap[up[k]].children

\* C10: for an input token matched in the ordered list by a node under the
\* root, getNodesToRoot returns the path to the root.
C10_PathToRoot ==
    (/\ last.op = "getNodesToRoot"
     /\ Matched # undefined
     /\ Matched # built.root)
        => PathToRoot(Matched)

\* The same for the tokens that are not the address of the last node of
\* the list (what the code's first test rejects).
PathToRootButLast ==
    (/\ last.op = "getNodesToRoot"
     /\ Matched # undefined
     /\ Matched # built.root
     /\ toLowerCase(last.token)
            # toLowerCase(heap[orderedNodes[Len(orderedNodes)]].address))
        => PathToRoot(Matched)

-----------------------------------------------------------------------------
(* C11 *)

\* The nodes of the subtree of n in pre-order: n, then the subtrees of its
\* children in their declared order.
RECURSIVE PreOrder(_, _)
RECURSIVE PreOrderOf(_, _, _)
PreOrderOf(h, children, i) ==
    IF i > Len(children) THEN <<>>
    ELSE PreOrder(h, children[i]) \o PreOrderOf(h, children, i + 1)

PreOrder(h, n) == <<n>> \o PreOrderOf(h, h[n].children, 1)

\* C11: in a built tree of n nodes the indices are the strings "0" .. "n-1",
\* one node each, given in pre-order: the root has "0", the k-th node of the
\* pre-order walk has k-1, so that a node comes before all its descendants
\* and the subtrees of siblings take consecutive ranges in declared order.
C11_PreOrderIndices ==
    built.status = "ok" =>
        LET walk == PreOrder(heap, built.root)
        IN  /\ Len(walk) = built.size
            /\ Range(walk) = TreeNodes
            /\ heap[built.root].index = "0"
            /\ \A k \in DOMAIN walk : heap[walk[k]].index = toString(k - 1)
            /\ \A m, n \in TreeNodes : m # n => heap[m].index # heap[n].index
            /\ \A n \in TreeNodes :
                LET first == indexOf(walk, n)
                    sub == PreOrder(heap, n)
                IN  \A j \in DOMAIN sub :
                        heap[sub[j]].index = toString(first - 1 + j - 1)

\* A tree whose root has a nested pool of three nodes or more as its first
\* child and another child after it: the second child's index comes after the
\* whole subtree of the first.
C11_Witness ==
    /\ built.status = "ok"
    /\ built.size >= 7
    /\ Len(heap[built.root].children) >= 2
    /\ Len(PreOrder(heap, heap[built.root].children[1])) >= 3
    /\ heap[heap[built.root].children[2]].index
            = toString(1 + Len(PreOrder(heap, heap[built.root].children[1])))

====
